---- MODULE Spec2Model ----
(***************************************************************************)
(* Pruefungsplan-Tracker (src/app/index.tsx): the App component's state,   *)
(* the refresh of the table (fetchData), the per-row pointer presses       *)
(* (changeIndex) and the per-slot highlighting (renderRow, getSlotStyle).  *)
(*                                                                         *)
(* A field of the table is a JavaScript string, modelled as the sequence   *)
(* of its characters, so that parseInt and === are computed on the text.   *)
(* A row is the sequence of its fields, the table the sequence of its rows. *)
(***************************************************************************)
EXTENDS Integers, Sequences, FiniteSets, TLC

\* ---------------------------------------------------------------- bounds
\* Fetches that may be in flight at the same time (the first load and the
\* refreshes started while another one is pending).
MaxInFlight == 2
\* Slots of a row in the row-level specification SpecRow.
MaxSlots == 4
\* Largest step by which changeIndex is evaluated (the buttons use 1).
MaxDelta == 3

\* ---------------------------------------------------------------- fields
id101 == <<"1", "0", "1">>
id102 == <<"1", "0", "2">>
id103 == <<"1", "0", "3">>
id104 == <<"1", "0", "4">>
Empty == <<>>

\* What JavaScript reads from row[k] when the row has no field k: undefined,
\* which parseInt first converts to the string "undefined".
Undefined == <<"u", "n", "d", "e", "f", "i", "n", "e", "d">>

Digits == {"0", "1", "2", "3", "4", "5", "6", "7", "8", "9"}

DigitVal(c) ==
  CASE c = "0" -> 0 [] c = "1" -> 1 [] c = "2" -> 2 [] c = "3" -> 3
    [] c = "4" -> 4 [] c = "5" -> 5 [] c = "6" -> 6 [] c = "7" -> 7
    [] c = "8" -> 8 [] c = "9" -> 9

\* row[k] with JavaScript's 0-based index.
At(row, k) == IF k + 1 <= Len(row) THEN row[k + 1] ELSE Undefined

\* The value of the longest run of decimal digits of s that starts at i.
RECURSIVE DigitRun(_, _, _)
DigitRun(s, i, acc) ==
  IF i > Len(s) \/ s[i] \notin Digits
    THEN acc
    ELSE DigitRun(s, i + 1, acc * 10 + DigitVal(s[i]))

NaN == [nan |-> TRUE, val |-> 0]

\* parseInt(s) for a trimmed field: an optional sign, then the longest
\* prefix of decimal digits; NaN when there is no digit.
parseInt(s) ==
  LET signed == Len(s) >= 1 /\ s[1] \in {"-", "+"}
      start  == IF signed THEN 2 ELSE 1
      sign   == IF Len(s) >= 1 /\ s[1] = "-" THEN -1 ELSE 1
  IN IF start > Len(s) \/ s[start] \notin Digits
       THEN NaN
       ELSE [nan |-> FALSE, val |-> sign * DigitRun(s, start, 0)]

\* Number.isFinite(parsed) && !isNaN(parsed) ? parsed : 0
csvCurrentIndex(row) ==
  LET parsed == parseInt(At(row, 1))
  IN IF ~parsed.nan THEN parsed.val ELSE 0

\* row.slice(2)
slotsOf(row) == IF Len(row) >= 3 THEN SubSeq(row, 3, Len(row)) ELSE <<>>

\* data.slice(1) / rows.slice(1): the rows below the header.
bodyRows(rows) == IF Len(rows) >= 2 THEN SubSeq(rows, 2, Len(rows)) ELSE <<>>

\* ---------------------------------------------------------- PointerStore
Max(a, b) == IF a >= b THEN a ELSE b
Min(a, b) == IF a <= b THEN a ELSE b

\* prev[rowIndex] || 0
curOf(prev, rowIndex) ==
  IF rowIndex \in DOMAIN prev THEN prev[rowIndex] ELSE 0

\* A wrong changeIndex: the upper limit slotsLength is forgotten.
clampedNoUpper(cur, delta, slotsLength) == Max(0, cur + delta)

\* Math.max(0, Math.min(slotsLength, cur + delta))
clamped(cur, delta, slotsLength) == Max(0, Min(slotsLength, cur + delta))

\* A wrong updater: `...prev` is missing, so the other rows' overrides are
\* dropped.
changeIndexDropsOthers(prev, rowIndex, delta, slotsLength) ==
  [i \in {rowIndex} |-> clamped(curOf(prev, rowIndex), delta, slotsLength)]

\* The updater changeIndex hands to setIndices: { ...prev, [rowIndex]: next }
changeIndex(prev, rowIndex, delta, slotsLength) ==
  LET next == clamped(curOf(prev, rowIndex), delta, slotsLength)
  IN [i \in (DOMAIN prev) \cup {rowIndex} |->
        IF i = rowIndex THEN next ELSE prev[i]]

\* A wrong fetchData: the header row is not skipped (rows instead of
\* rows.slice(1)), so the map is keyed one row too far.
initialWithHeader(rows) ==
  [i \in 0..(Len(rows) - 1) |-> csvCurrentIndex(rows[i + 1])]

\* The object `initial` fetchData builds from the rows below the header.
initialOf(rows) ==
  [i \in 0..(Len(bodyRows(rows)) - 1) |-> csvCurrentIndex(bodyRows(rows)[i + 1])]

\* ------------------------------------------------------------- renderRow
\* The value of nextMatchOrdinal when no match qualifies (null); slot
\* ordinals start at 1, so it equals no ordinal.
Null == 0

\* indices[rowIndex] !== undefined ? indices[rowIndex] : csvCurrentIndex
currentIndexOf(row, rowIndex, idx) ==
  IF rowIndex \in DOMAIN idx THEN idx[rowIndex] ELSE csvCurrentIndex(row)

\* The ordinals pushed to `matches`, in the order forEach visits the slots.
RECURSIVE matchesFrom(_, _, _)
matchesFrom(slots, sid, i) ==
  IF i > Len(slots) THEN <<>>
  ELSE (IF slots[i] = sid THEN <<i>> ELSE <<>>) \o matchesFrom(slots, sid, i + 1)

matchesOf(slots, sid) == IF sid # Empty THEN matchesFrom(slots, sid, 1) ELSE <<>>

\* A wrong scan: "first > currentIndex", as the comment above the loop says.
RECURSIVE firstAfter(_, _, _)
firstAfter(matches, currentIndex, k) ==
  IF k > Len(matches) THEN Null
  ELSE IF matches[k] > currentIndex THEN matches[k]
  ELSE firstAfter(matches, currentIndex, k + 1)

\* for (let m of matches) { if (m >= currentIndex) { nextMatchOrdinal = m; break; } }
RECURSIVE firstAtOrAfter(_, _, _)
firstAtOrAfter(matches, currentIndex, k) ==
  IF k > Len(matches) THEN Null
  ELSE IF matches[k] >= currentIndex THEN matches[k]
  ELSE firstAtOrAfter(matches, currentIndex, k + 1)

nextStrictlyAfter(matches, currentIndex) == firstAfter(matches, currentIndex, 1)

\* A wrong scan: the `break` is missing, so the last qualifying match wins.
RECURSIVE lastAtOrAfter(_, _, _, _)
lastAtOrAfter(matches, currentIndex, k, found) ==
  IF k > Len(matches) THEN found
  ELSE lastAtOrAfter(matches, currentIndex, k + 1,
                     IF matches[k] >= currentIndex THEN matches[k] ELSE found)

nextWithoutBreak(matches, currentIndex) == lastAtOrAfter(matches, currentIndex, 1, Null)

nextMatchOrdinalOf(matches, currentIndex) == firstAtOrAfter(matches, currentIndex, 1)

\* Background colours of a slot cell; base has none.
Base == "base"
Grey == "#ccc"
LightRed == "#ffcccc"
BrightRed == "#ff3333"

\* A wrong getSlotStyle: the empty-query test is missing.
getSlotStyleNoEmptyTest(slotId, slotOrdinal, currentIndex, sid) ==
  IF slotId # sid THEN Base
  ELSE IF slotOrdinal <= currentIndex THEN Grey
  ELSE LightRed

\* A wrong getSlotStyle: the comparison with the pointer is inverted.
getSlotStyleInverted(slotId, slotOrdinal, currentIndex, sid) ==
  IF sid = Empty THEN Base
  ELSE IF slotId # sid THEN Base
  ELSE IF slotOrdinal >= currentIndex THEN Grey
  ELSE LightRed

getSlotStyle(slotId, slotOrdinal, currentIndex, sid) ==
  IF sid = Empty THEN Base
  ELSE IF slotId # sid THEN Base
  ELSE IF slotOrdinal <= currentIndex THEN Grey
  ELSE LightRed

\* A wrong override: every match at or after the pointer is forced bright red.
isNextAny(slotId, slotOrdinal, nextMatchOrdinal, currentIndex, sid) ==
  sid # Empty /\ slotOrdinal >= currentIndex /\ slotId = sid

\* studentID && nextMatchOrdinal === slotOrdinal && id === studentID
isNext(slotId, slotOrdinal, nextMatchOrdinal, currentIndex, sid) ==
  sid # Empty /\ nextMatchOrdinal = slotOrdinal /\ slotId = sid

\* A wrong marker: the pointer is compared with the 0-based slot index.
isCurrentZeroBased(slotOrdinal, currentIndex) ==
  slotOrdinal - 1 = currentIndex /\ currentIndex >= 1

\* slotOrdinal === currentIndex && currentIndex >= 1
isCurrent(slotOrdinal, currentIndex) ==
  slotOrdinal = currentIndex /\ currentIndex >= 1

\* What renderRow computes for one row under the overrides idx and the
\* query sid: the pointer it shows, the matches, the next match, and per
\* slot the background colour and the current-column flag.
renderRow(row, rowIndex, idx, sid) ==
  LET slots        == slotsOf(row)
      currentIndex == currentIndexOf(row, rowIndex, idx)
      matches      == matchesOf(slots, sid)
      next         == nextMatchOrdinalOf(matches, currentIndex)
  IN [ currentIndex     |-> currentIndex,
       slots            |-> slots,
       matches          |-> matches,
       nextMatchOrdinal |-> next,
       colour |-> [o \in 1..Len(slots) |->
                    IF isNext(slots[o], o, next, currentIndex, sid)
                      THEN BrightRed
                      ELSE getSlotStyle(slots[o], o, currentIndex, sid)],
       current |-> [o \in 1..Len(slots) |-> isCurrent(o, currentIndex)] ]

\* ---------------------------------------------------------------- inputs
Header  == << <<"S">>, <<"C">>, <<"1">> >>
rowMath == << <<"M">>, <<"2">>, id101, id102, id101, id104 >>
rowEng  == << <<"E">>, <<"7">>, id101, Empty >>
rowBio  == << <<"B">>, <<"-", "1">>, id102, id101 >>

tableA == <<Header, rowMath, rowEng>>
tableB == <<Header, rowBio>>
\* parseCSV of an empty body: one row holding one empty field.
tableNone == << <<Empty>> >>

\* The tables a fetch may deliver (the result of parseCSV on its body).
Responses == {tableA, tableB, tableNone}

\* The texts the user may type into the query field.
Queries == {Empty, id101, id102}

\* ----------------------------------------------------------------- state
VARIABLES
  data,        \* useState([]): the table, header row included
  loading,     \* useState(true)
  refreshing,  \* useState(false)
  studentID,   \* useState(''): the query identifier
  indices,     \* useState({}): row index -> pointer override
  inflight,    \* the fetchData calls that have not completed, each at its await
  legacyRoot,  \* whether the app is mounted under a root that does not batch
               \* the state updates made after an await
  flushed,     \* the views rendered inside the last handler, between its
               \* state updates (none under a batching root)
  alert,       \* the notification the last handler raised, if any
  snapshot,    \* history: the table and overrides as they were when the
               \* watched fetch started, with the later presses applied
               \* (kept only in the runs that watch a fetch, track = TRUE)
  last         \* history: the last handler that ran

vars == <<data, loading, refreshing, studentID, indices, inflight,
          legacyRoot, flushed, alert, snapshot, last>>

View(d, idx, l, r) == [data |-> d, indices |-> idx, loading |-> l, refreshing |-> r]

\* The renders a non-batching root flushes while a handler applies the
\* state updates `steps` one after the other (a view per update that changed
\* the state); the render of the final state is not listed.
RECURSIVE Flushes(_, _)
Flushes(before, steps) ==
  IF Len(steps) <= 1 THEN <<>>
  ELSE (IF steps[1] # before THEN <<steps[1]>> ELSE <<>>)
         \o Flushes(steps[1], Tail(steps))

NoAlert == <<>>
\* Alert.alert('Fehler', 'Konnte Daten nicht laden.')
FehlerAlert == <<"Fehler", "Konnte Daten nicht laden.">>

NoSnapshot == [track |-> FALSE, on |-> FALSE, clean |-> TRUE, data0 |-> <<>>, idx0 |-> <<>>]
Idle(snap) == [NoSnapshot EXCEPT !.track = snap.track]

Blank(kind) ==
  [ kind |-> kind, rowIndex |-> 0, delta |-> 0, slotsLength |-> 0, prevCur |-> 0,
    prevRows |-> 0, manual |-> FALSE, replaced |-> FALSE, prevQuery |-> Empty,
    snap |-> NoSnapshot, afterSuccess |-> FALSE, wasRefreshing |-> FALSE,
    overlap |-> FALSE, rows |-> <<>> ]

\* The record of a handler of the given kind; the completion of a fetch
\* also notes whether the handler before it was a successful completion and
\* whether the refreshing flag was set.
Event(kind) ==
  IF kind \in {"success", "failure"}
    THEN [Blank(kind) EXCEPT !.afterSuccess = (last.kind = "success"),
                             !.wasRefreshing = refreshing]
    ELSE Blank(kind)

\* After the first render and the mount effect (useEffect -> fetchData): the
\* loading screen is shown and one fetch is awaiting its response.
Start(track, roots) ==
  /\ data = <<>>
  /\ loading = TRUE
  /\ refreshing = FALSE
  /\ studentID = Empty
  /\ indices = <<>>
  /\ \E w \in {FALSE, track} :
       /\ inflight = << [stage |-> "fetch", watched |-> w, overlap |-> FALSE] >>
       /\ snapshot = [NoSnapshot EXCEPT !.track = track, !.on = w]
  /\ legacyRoot \in roots
  /\ flushed = <<>>
  /\ alert = NoAlert
  /\ last = Blank("mount")

Init == Start(FALSE, BOOLEAN)

Remove(seq, k) == SubSeq(seq, 1, k - 1) \o SubSeq(seq, k + 1, Len(seq))

\* onRefresh (Refresh button or pull-to-refresh): setRefreshing(true);
\* fetchData() runs up to its first await.
onRefresh ==
  /\ ~loading
  /\ Len(inflight) < MaxInFlight
  /\ refreshing' = TRUE
  /\ \E w \in BOOLEAN :
       /\ w => snapshot.track /\ ~snapshot.on
       /\ inflight' = Append([j \in 1..Len(inflight) |->
                                  [inflight[j] EXCEPT !.overlap = TRUE]],
                              [stage |-> "fetch", watched |-> w,
                               overlap |-> (Len(inflight) >= 1)])
       /\ snapshot' = IF w THEN [track |-> TRUE, on |-> TRUE, clean |-> TRUE,
                                    data0 |-> data, idx0 |-> indices]
                          ELSE snapshot
  /\ flushed' = <<>>
  /\ alert' = NoAlert
  /\ last' = Event("refresh")
  /\ UNCHANGED <<data, loading, studentID, indices, legacyRoot>>

\* `await fetch(...)` resolves: fetchData goes on to `await res.text()`.
fetchResolved(k) ==
  /\ inflight[k].stage = "fetch"
  /\ inflight' = [inflight EXCEPT ![k].stage = "text"]
  /\ flushed' = <<>>
  /\ alert' = NoAlert
  /\ last' = Event("response")
  /\ UNCHANGED <<data, loading, refreshing, studentID, indices, legacyRoot, snapshot>>

\* A wrong fetchData: the overrides are applied only by the fetch that is
\* alone in flight, the table by every fetch.
fetchSucceededStale(k, rows) ==
  /\ inflight[k].stage = "text"
  /\ data' = rows
  /\ indices' = IF Len(inflight) > 1 THEN indices ELSE initialOf(rows)
  /\ loading' = FALSE
  /\ refreshing' = FALSE
  /\ inflight' = Remove(inflight, k)
  /\ flushed' = <<>>
  /\ alert' = NoAlert
  /\ snapshot' = IF inflight[k].watched THEN Idle(snapshot)
                 ELSE IF snapshot.on THEN [snapshot EXCEPT !.clean = FALSE]
                 ELSE snapshot
  /\ last' = [Event("success") EXCEPT
                !.overlap = inflight[k].overlap,
                !.rows = rows,
                !.prevRows = Len(bodyRows(data)),
                !.manual = (indices # initialOf(data)),
                !.replaced = (rows # data)]
  /\ UNCHANGED <<studentID, legacyRoot>>

\* `await res.text()` resolves with a body that parseCSV turns into rows:
\* setData(rows); setIndices(initial); finally setLoading(false);
\* setRefreshing(false).
fetchSucceeded(k, rows) ==
  /\ inflight[k].stage = "text"
  /\ data' = rows
  /\ indices' = initialOf(rows)
  /\ loading' = FALSE
  /\ refreshing' = FALSE
  /\ inflight' = Remove(inflight, k)
  /\ flushed' = IF legacyRoot
                  THEN Flushes(View(data, indices, loading, refreshing),
                               << View(rows, indices, loading, refreshing),
                                  View(rows, initialOf(rows), loading, refreshing),
                                  View(rows, initialOf(rows), FALSE, refreshing),
                                  View(rows, initialOf(rows), FALSE, FALSE) >>)
                  ELSE <<>>
  /\ alert' = NoAlert
  /\ snapshot' = IF inflight[k].watched THEN Idle(snapshot)
                 ELSE IF snapshot.on THEN [snapshot EXCEPT !.clean = FALSE]
                 ELSE snapshot
  /\ last' = [Event("success") EXCEPT
                !.overlap = inflight[k].overlap,
                !.rows = rows,
                !.prevRows = Len(bodyRows(data)),
                !.manual = (indices # initialOf(data)),
                !.replaced = (rows # data)]
  /\ UNCHANGED <<studentID, legacyRoot>>

\* A wrong catch block: the table is dropped when the refresh fails.
fetchFailedDropsTable(k) ==
  /\ data' = <<>>
  /\ loading' = FALSE
  /\ refreshing' = FALSE
  /\ inflight' = Remove(inflight, k)
  /\ flushed' = <<>>
  /\ alert' = FehlerAlert
  /\ snapshot' = IF inflight[k].watched THEN Idle(snapshot) ELSE snapshot
  /\ last' = [Event("failure") EXCEPT
                !.overlap = inflight[k].overlap,
                !.snap = IF inflight[k].watched THEN snapshot ELSE NoSnapshot]
  /\ UNCHANGED <<studentID, indices, legacyRoot>>

\* A wrong fetchData: the flags are cleared in the try block and not in a
\* finally block, so a failed fetch leaves them as they are.
fetchFailedNoFinally(k) ==
  /\ inflight' = Remove(inflight, k)
  /\ flushed' = <<>>
  /\ alert' = FehlerAlert
  /\ snapshot' = IF inflight[k].watched THEN Idle(snapshot) ELSE snapshot
  /\ last' = [Event("failure") EXCEPT
                !.overlap = inflight[k].overlap,
                !.snap = IF inflight[k].watched THEN snapshot ELSE NoSnapshot]
  /\ UNCHANGED <<data, loading, refreshing, studentID, indices, legacyRoot>>

\* `await fetch(...)` or `await res.text()` rejects: the catch block raises
\* the alert; finally setLoading(false); setRefreshing(false).
fetchFailed(k) ==
  /\ loading' = FALSE
  /\ refreshing' = FALSE
  /\ inflight' = Remove(inflight, k)
  /\ flushed' = IF legacyRoot
                  THEN Flushes(View(data, indices, loading, refreshing),
                               << View(data, indices, FALSE, refreshing),
                                  View(data, indices, FALSE, FALSE) >>)
                  ELSE <<>>
  /\ alert' = FehlerAlert
  /\ snapshot' = IF inflight[k].watched THEN Idle(snapshot) ELSE snapshot
  /\ last' = [Event("failure") EXCEPT
                !.overlap = inflight[k].overlap,
                !.snap = IF inflight[k].watched THEN snapshot ELSE NoSnapshot]
  /\ UNCHANGED <<data, studentID, indices, legacyRoot>>

\* A press on the decrement (delta = -1) or increment (delta = +1) button of
\* the displayed row rowIndex: changeIndex(rowIndex, delta, slots.length).
press(rowIndex, delta) ==
  /\ ~loading
  /\ rowIndex \in 0..(Len(bodyRows(data)) - 1)
  /\ LET slotsLength == Len(slotsOf(bodyRows(data)[rowIndex + 1]))
     IN /\ indices' = changeIndex(indices, rowIndex, delta, slotsLength)
        /\ snapshot' = IF snapshot.on
                         THEN [snapshot EXCEPT
                                 !.idx0 = changeIndex(@, rowIndex, delta, slotsLength)]
                         ELSE snapshot
        /\ last' = [Event("press") EXCEPT
                      !.rowIndex = rowIndex, !.delta = delta,
                      !.slotsLength = slotsLength,
                      !.prevCur = curOf(indices, rowIndex)]
  /\ flushed' = <<>>
  /\ alert' = NoAlert
  /\ UNCHANGED <<data, loading, refreshing, studentID, inflight, legacyRoot>>

\* onChangeText={setStudentID}
onChangeText(text) ==
  /\ ~loading
  /\ text # studentID
  /\ studentID' = text
  /\ flushed' = <<>>
  /\ alert' = NoAlert
  /\ last' = [Event("query") EXCEPT !.prevQuery = studentID]
  /\ UNCHANGED <<data, loading, refreshing, indices, inflight, legacyRoot, snapshot>>

\* The Clear button: setStudentID('')
clearQuery ==
  /\ ~loading
  /\ studentID' = Empty
  /\ flushed' = <<>>
  /\ alert' = NoAlert
  /\ last' = [Event("clear") EXCEPT !.prevQuery = studentID]
  /\ UNCHANGED <<data, loading, refreshing, indices, inflight, legacyRoot, snapshot>>

Next ==
  \/ onRefresh
  \/ \E k \in 1..Len(inflight) : fetchResolved(k)
  \/ \E k \in 1..Len(inflight), rows \in Responses : fetchSucceeded(k, rows)
  \/ \E k \in 1..Len(inflight) : fetchFailed(k)
  \/ \E rowIndex \in 0..(Len(data) - 2), delta \in {-1, 1} : press(rowIndex, delta)
  \/ \E text \in Queries : onChangeText(text)
  \/ clearQuery

Spec == Init /\ [][Next]_vars


\* The refreshes and presses alone, one fetch at a time being watched from
\* its start to its completion, under a batching root.
InitWatch == Start(TRUE, {FALSE})

NextWatch ==
  \/ onRefresh
  \/ \E k \in 1..Len(inflight) : fetchResolved(k)
  \/ \E k \in 1..Len(inflight), rows \in Responses : fetchSucceeded(k, rows)
  \/ \E k \in 1..Len(inflight) : fetchFailed(k)
  \/ \E rowIndex \in 0..(Len(data) - 2), delta \in {-1, 1} : press(rowIndex, delta)

SpecWatch == InitWatch /\ [][NextWatch]_vars

\* A pending fetchData call takes its next step: its promise settles and
\* the event loop runs the continuation.
Settle ==
  \E k \in 1..Len(inflight) :
    \/ fetchResolved(k)
    \/ \E rows \in Responses : fetchSucceeded(k, rows)
    \/ fetchFailed(k)

\* The refreshes and presses when every fetch eventually resolves or
\* rejects, under either root.
SpecLive == Init /\ [][NextWatch]_vars /\ WF_vars(Settle)

\* One row at a time: the table holds the header and one row, drawn from
\* every row of up to MaxSlots slots, as the first load delivered it; the
\* user then presses the row's buttons and edits the query.
SlotIds == {id101, id102, id104}
PointerFields == { <<"2">>, <<"7">>, <<"-", "1">>, <<"x">>, <<"2", "x">>, Empty }
SlotSeqs == UNION { [1..n -> SlotIds] : n \in 0..MaxSlots }
RowInputs ==
  { << <<"M">> >> } \cup { << <<"M">>, p >> \o slots : p \in PointerFields, slots \in SlotSeqs }

InitRow ==
  /\ \E row \in RowInputs :
       /\ data = <<Header, row>>
       /\ indices = initialOf(<<Header, row>>)
  /\ loading = FALSE
  /\ refreshing = FALSE
  /\ studentID = Empty
  /\ inflight = <<>>
  /\ legacyRoot = FALSE
  /\ flushed = <<>>
  /\ alert = NoAlert
  /\ snapshot = NoSnapshot
  /\ last = Blank("success")

NextRow ==
  \/ \E delta \in {-1, 1} : press(0, delta)
  \/ \E text \in Queries : onChangeText(text)
  \/ clearQuery

SpecRow == InitRow /\ [][NextRow]_vars

\* ================================================================ claims
\* The rows the list displays, by row index, and what renderRow computes
\* for each of them in the current state.
RowIndexes == 0..(Len(bodyRows(data)) - 1)
rowAt(i) == bodyRows(data)[i + 1]
rendered(i) == renderRow(rowAt(i), i, indices, studentID)
slotCount(i) == Len(slotsOf(rowAt(i)))

\* The classes of the specification, by the colour that displays them.
ClassOf(colour) ==
  CASE colour = Base -> "NEUTRAL"
    [] colour = Grey -> "PAST"
    [] colour = BrightRed -> "NEXT"
    [] colour = LightRed -> "FUTURE"

classes(i) == [o \in 1..slotCount(i) |-> ClassOf(rendered(i).colour[o])]

\* clamp(x, lo, hi) as the specification defines it.
Clamp(x, lo, hi) == IF x < lo THEN lo ELSE IF x > hi THEN hi ELSE x

SetMin(S) == CHOOSE m \in S : \A n \in S : m <= n

\* C1: in every state that displays rows, the effective pointer of every
\* row lies between 0 and the row's slot count, also right after a refresh
\* loaded the raw pointer field.
C1_PointerInRange ==
  ~loading =>
    \A i \in RowIndexes :
      /\ rendered(i).currentIndex >= 0
      /\ rendered(i).currentIndex <= slotCount(i)

\* C2: a press stores clamp(previous + delta, 0, slotCount) for the row,
\* whatever value was stored before (also one outside the range), and
\* changeIndex yields that value for every delta; the stored value never
\* leaves [0, slotCount] by a press.
C2_ChangeIndexClamps ==
  /\ last.kind = "press" =>
       /\ last.rowIndex \in DOMAIN indices
       /\ indices[last.rowIndex]
            = Clamp(last.prevCur + last.delta, 0, last.slotsLength)
       /\ indices[last.rowIndex] \in 0..last.slotsLength
  /\ ~loading =>
       \A i \in RowIndexes, d \in (-MaxDelta)..MaxDelta :
         /\ i \in DOMAIN indices
         /\ changeIndex(indices, i, d, slotCount(i))[i]
              = Clamp(indices[i] + d, 0, slotCount(i))

\* C2 witness: an increment pressed on a row whose stored pointer was above
\* its slot count.
C2_Witness ==
  /\ last.kind = "press"
  /\ last.delta = 1
  /\ last.prevCur > last.slotsLength
  /\ indices[last.rowIndex] = last.slotsLength

C4_AtMostOneNext ==
  \A i \in RowIndexes :
    Cardinality({ o \in 1..slotCount(i) : classes(i)[o] = "NEXT" }) <= 1

\* C4 witness: the query occupies two slots at or after the pointer and
\* one of them is NEXT.
C4_Witness ==
  \E i \in RowIndexes :
    /\ studentID # Empty
    /\ Cardinality({ o \in 1..slotCount(i) :
                       /\ slotsOf(rowAt(i))[o] = studentID
                       /\ o >= rendered(i).currentIndex }) >= 2
    /\ Cardinality({ o \in 1..slotCount(i) : classes(i)[o] = "NEXT" }) = 1

\* The class the precedence rules of the specification give a slot.
Precedence(slotId, ordinal, pointer, query, nextOrdinal) ==
  IF query = Empty THEN "NEUTRAL"
  ELSE IF slotId # query THEN "NEUTRAL"
  ELSE IF ordinal = nextOrdinal THEN "NEXT"
  ELSE IF ordinal <= pointer THEN "PAST"
  ELSE "FUTURE"

ExampleSlots == <<id101, id102, id101, id104>>

C6_EmptyQueryNeutral ==
  studentID = Empty =>
    \A i \in RowIndexes : \A o \in 1..slotCount(i) : classes(i)[o] = "NEUTRAL"

\* C6 witness: the query was cleared after being non-empty, a displayed row
\* has an empty slot cell and its pointer was moved by a press before.
C6_Witness ==
  /\ studentID = Empty
  /\ last.kind = "clear"
  /\ last.prevQuery # Empty
  /\ \E i \in RowIndexes :
       /\ \E o \in 1..slotCount(i) : slotsOf(rowAt(i))[o] = Empty
       /\ indices[i] # csvCurrentIndex(rowAt(i))

C8_RefreshReplacesOverrides ==
  last.kind = "success" =>
    /\ DOMAIN indices = 0..(Len(data) - 2)
    /\ \A i \in DOMAIN indices :
         LET field == At(data[i + 2], 1)
         IN indices[i] = IF parseInt(field).nan THEN 0 ELSE parseInt(field).val

\* C8 witness: a refresh completed while the overrides differed from the
\* loaded pointers and the previous table had more rows than the new one.
C8_Witness ==
  /\ last.kind = "success"
  /\ last.manual
  /\ last.prevRows > Len(bodyRows(data))
  /\ Len(bodyRows(data)) >= 1

\* A rendered view that pairs the rows of the table a refresh just loaded
\* with the overrides held before, and shows a row of the new table with a
\* pointer that is not the one loaded for it.
Mixed(v) ==
  /\ last.kind = "success"
  /\ last.replaced
  /\ ~v.loading
  /\ v.data = data
  /\ v.indices # indices
  /\ \E i \in RowIndexes :
       currentIndexOf(rowAt(i), i, v.indices) # currentIndexOf(rowAt(i), i, indices)

\* C9: a completed refresh replaces table and overrides atomically: no
\* render sees the rows of the new table with the overrides of the old one.
C9_AtomicReplace ==
  \A k \in 1..Len(flushed) : ~Mixed(flushed[k])

\* C10 as stated: after a failed refresh the table and the overrides are
\* what they were when that refresh started, with the presses made
\* meanwhile applied; the alert is raised and the list stays displayed.
C10_FailureRestoresStart ==
  (last.kind = "failure" /\ last.snap.on) =>
    /\ data = last.snap.data0
    /\ indices = last.snap.idx0
    /\ alert = FehlerAlert
    /\ ~loading

\* C10 amended: handling the failure changes neither the table nor the
\* overrides, raises the alert and leaves the list displayed; the table and
\* overrides are those of the refresh's start with the presses made
\* meanwhile whenever no other refresh completed successfully meanwhile.
C10_FailureChangesNothing ==
  /\ [][last'.kind = "failure" =>
          /\ data' = data
          /\ indices' = indices
          /\ alert' = FehlerAlert
          /\ ~loading']_vars
  /\ []((last.kind = "failure" /\ last.snap.on /\ last.snap.clean) =>
          /\ data = last.snap.data0
          /\ indices = last.snap.idx0)

\* C10 witness: a refresh failed after a table was loaded, presses were made
\* and another refresh completed while it was in flight.
C10_Witness ==
  /\ last.kind = "failure"
  /\ alert = FehlerAlert
  /\ last.snap.on
  /\ ~last.snap.clean
  /\ Len(data) >= 2
  /\ indices # initialOf(data)

\* The pointers a table holds in its raw pointer fields, by row index.
Loaded(rows) ==
  [i \in 0..(Len(rows) - 2) |->
     LET field == At(rows[i + 2], 1)
     IN IF parseInt(field).nan THEN 0 ELSE parseInt(field).val]

\* The overrides idx belong to the table d: one per row below the header,
\* each the row's loaded pointer or a value a press on that row stores.
Consistent(d, idx) ==
  /\ DOMAIN idx = 0..(Len(d) - 2)
  /\ \A i \in DOMAIN idx :
       \/ idx[i] = Loaded(d)[i]
       \/ idx[i] \in 0..Len(slotsOf(d[i + 2]))

\* C11: when refreshes overlap, the one whose result is applied last sets
\* both the table and the overrides; in every state the overrides are those
\* of the displayed table (as loaded or as pressed since), never those of
\* another refresh's table.
C11_LastWriterWins ==
  /\ (last.kind = "success" /\ last.overlap) =>
       /\ data = last.rows
       /\ indices = Loaded(last.rows)
  /\ Consistent(data, indices)

\* C11 witness: two overlapping refreshes completed one right after the
\* other, both with a table, the second with a different one.
C11_Witness ==
  /\ last.kind = "success"
  /\ last.overlap
  /\ last.afterSuccess
  /\ last.replaced
  /\ inflight = <<>>

\* C12: whatever the query, a slot carries the CURRENT marker and outline
\* exactly when its ordinal equals the row's effective pointer; so at most
\* one slot per row is current, and none when the pointer is 0.
C12_CurrentColumn ==
  \A i \in RowIndexes :
    LET r == rendered(i) IN
    /\ \A o \in 1..slotCount(i) : r.current[o] <=> (o = r.currentIndex)
    /\ Cardinality({ o \in 1..slotCount(i) : r.current[o] }) <= 1
    /\ r.currentIndex = 0 => \A o \in 1..slotCount(i) : ~r.current[o]

\* C12 witness: a query is entered, the slot at the pointer does not hold it
\* and is the current one, after a press moved the pointer there.
C12_Witness ==
  /\ studentID # Empty
  /\ \E i \in RowIndexes :
       LET r == rendered(i) IN
       /\ r.currentIndex \in 2..slotCount(i)
       /\ r.currentIndex # csvCurrentIndex(rowAt(i))
       /\ r.slots[r.currentIndex] # studentID
       /\ r.current[r.currentIndex]
       /\ r.colour[r.currentIndex] = Base

\* A field that is written as a number: an optional sign and then decimal
\* digits only, at least one.
IsNumber(field) ==
  LET body == IF Len(field) >= 1 /\ field[1] \in {"-", "+"} THEN Tail(field) ELSE field
  IN Len(body) >= 1 /\ \A k \in 1..Len(body) : body[k] \in Digits

\* C13: right after a load, a row whose raw pointer field is absent or not
\* a number has effective pointer 0; a row with fewer fields has the slots
\* it has (none when it has no slot field) and a press on it stores a
\* value within [0, its slot count].
C13_MalformedRows ==
  \A i \in RowIndexes :
    /\ (last.kind = "success" /\ (Len(rowAt(i)) < 2 \/ ~IsNumber(rowAt(i)[2])))
         => rendered(i).currentIndex = 0
    /\ slotCount(i) = Max(0, Len(rowAt(i)) - 2)
    /\ (last.kind = "press" /\ last.rowIndex = i)
         => rendered(i).currentIndex \in 0..slotCount(i)

\* The ordinals of row i whose slot holds the query.
matching(i) ==
  IF studentID = Empty THEN {}
  ELSE { o \in 1..slotCount(i) : slotsOf(rowAt(i))[o] = studentID }

\* C14: read by ascending ordinal, the slots holding the query are a run of
\* PAST, then at most one NEXT, then a run of FUTURE: every match after the
\* NEXT slot is FUTURE, and a FUTURE slot has a NEXT slot before it.
C14_PastNextFuture ==
  \A i \in RowIndexes :
    /\ \A o \in matching(i) : classes(i)[o] \in {"PAST", "NEXT", "FUTURE"}
    /\ \A a, b \in matching(i) :
         a < b =>
           /\ classes(i)[a] = "NEXT" => classes(i)[b] = "FUTURE"
           /\ classes(i)[a] = "FUTURE" => classes(i)[b] = "FUTURE"
           /\ classes(i)[b] = "PAST" => classes(i)[a] = "PAST"
    /\ \A b \in matching(i) :
         classes(i)[b] = "FUTURE" =>
           \E a \in matching(i) : a < b /\ classes(i)[a] = "NEXT"

\* C14 witness: three slots of a row hold the query and are PAST, NEXT and
\* FUTURE in this order.
C14_Witness ==
  \E i \in RowIndexes :
    \E a, b, c \in matching(i) :
      /\ a < b /\ b < c
      /\ classes(i)[a] = "PAST"
      /\ classes(i)[b] = "NEXT"
      /\ classes(i)[c] = "FUTURE"

\* C15: a press on row i changes the override of row i only: the other
\* rows' overrides, the table and the query stay as they are; editing or
\* clearing the query changes neither the table nor any override.
C15_Frame ==
  [][ /\ last'.kind = "press" =>
           /\ data' = data
           /\ studentID' = studentID
           /\ DOMAIN indices' = DOMAIN indices \cup {last'.rowIndex}
           /\ \A j \in DOMAIN indices \ {last'.rowIndex} : indices'[j] = indices[j]
      /\ last'.kind \in {"query", "clear"} =>
           /\ data' = data
           /\ indices' = indices ]_vars

\* C15 witness: with a query entered, a press moved row 0 of a two-row
\* table while row 1 holds an override made by an earlier press.
C15_Witness ==
  /\ last.kind = "press"
  /\ last.rowIndex = 0
  /\ indices[0] # last.prevCur
  /\ studentID # Empty
  /\ Len(data) = 3
  /\ indices[1] # Loaded(data)[1]

\* C16: every fetchData call ends, with a table or with an error, by
\* clearing the loading and the refreshing flag; once no fetch is in flight
\* both are off; the loading flag, once cleared, is never set again; and
\* when every fetch settles, the loading screen is eventually left and a
\* set refreshing flag is eventually cleared.
C16_FlagsCleared ==
  /\ [](last.kind \in {"success", "failure"} => ~loading /\ ~refreshing)
  /\ [](inflight = <<>> => ~loading /\ ~refreshing)
  /\ [][~loading => ~loading']_vars
  /\ <>(~loading)
  /\ (refreshing ~> ~refreshing)

\* C16 witness: a refresh that showed the refreshing indicator failed and
\* no fetch is in flight any more.
C16_Witness ==
  /\ last.kind = "failure"
  /\ last.wasRefreshing
  /\ inflight = <<>>
  /\ ~refreshing
  /\ ~loading

====
